---- MODULE Spec2Model ----
(***************************************************************************)
(* Model of the crystal lattice generator (crystal_generator.py):          *)
(* CrystalLattice (__init__, _apply_syngony_constraints,                   *)
(* get_lattice_vectors, get_basis_positions, generate_lattice),            *)
(* generate_chunk, generate_chunk_optimized, generate_lattice_parallel,    *)
(* create_ionic_lattice, save_ionic_lattice and save_xyz, and of the       *)
(* generation calls of menu.py.                                            *)
(*                                                                         *)
(* Specifications.  Spec: one lattice, one generation request, sequential  *)
(* or parallel without noise.  SpecLattice: the constructor over wide raw  *)
(* values.  SpecMain: a request as main runs it, from the lattice to the   *)
(* output file, with workers that fail.  SpecStreams: parallel requests    *)
(* with noise and the random streams of the workers.  SpecMainFair:        *)
(* SpecMain with workers and the coordinator that keep running.            *)
(* SpecVectors: the cell vectors of lattices with edges of any sign.       *)
(* SpecCounts: requests with any number as worker count, from a caller or  *)
(* from the menu.  SpecOptimized: the chunk of a worker that rebuilds the  *)
(* lattice.                                                                *)
(*                                                                         *)
(* Numbers.  Lengths are integers, angles are integer degrees.  Cosines    *)
(* and sines are fixed-point values scaled by TRIG, fractional basis       *)
(* offsets are scaled by FRAC (so 1/2 is 3, 1/3 is 2, 2/3 is 4), and a     *)
(* Cartesian coordinate is an integer in units of 1/(FRAC*TRIG) of the     *)
(* length unit.  NaN is the IEEE not-a-number, propagated by FAdd, FMul.   *)
(***************************************************************************)
EXTENDS Integers, Sequences, FiniteSets, Bags, TLC

VARIABLES lattice,    \* attributes of the CrystalLattice object (empty: none set)
          raw,        \* arguments of the last CrystalLattice(...) call
          err,        \* exception raised by the last operation, or "none"
          call,       \* the generation request being served / last served
          positions,  \* array returned by the last generation request
          rng,        \* state of the coordinator's global np.random generator
          pool,       \* "none", "running" (inside pool.map) or "closed"
          chunks,     \* argument tuples built by generate_lattice_parallel
          results,    \* per chunk: Pending, the array generate_chunk returned,
                      \* Raised or Lost
          basis,      \* list returned by lattice.get_basis_positions(), <<>> before
          streams,    \* per chunk: the generator stream its noise was drawn from
          save_call,  \* the call that wrote the file, with its arguments
          file,       \* the output file, NoFile while it does not exist
          vectors     \* array returned by lattice.get_lattice_vectors(), <<>> before

vars == <<lattice, raw, err, call, positions, rng, pool, chunks, results,
          basis, streams, save_call, file, vectors>>

----------------------------------------------------------------------------
(* Bounds of the model *)

MaxNx == 2           \* nx ranges over 0..MaxNx
MaxNy == 2           \* ny ranges over 0..MaxNy
MaxNz == 3           \* nz ranges over 0..MaxNz
MaxW == 3            \* n_processes ranges over 1..MaxW
RngPeriod == 2       \* number of states of the modelled random generator

(* Fixed-point scales *)
TRIG == 1000
FRAC == 6

NaN == 0 - 1000000000

----------------------------------------------------------------------------
(* CrystalLattice.LATTICE_TYPES: identifier -> syngony and centering       *)
(* (the display name plays no role in any computation and is left out).    *)

LATTICE_TYPES ==
  [ triclinic_primitive    |-> [syngony |-> "triclinic",    centering |-> "P"],
    monoclinic_primitive   |-> [syngony |-> "monoclinic",   centering |-> "P"],
    monoclinic_base        |-> [syngony |-> "monoclinic",   centering |-> "C"],
    orthorhombic_primitive |-> [syngony |-> "orthorhombic", centering |-> "P"],
    orthorhombic_base      |-> [syngony |-> "orthorhombic", centering |-> "C"],
    orthorhombic_body      |-> [syngony |-> "orthorhombic", centering |-> "I"],
    orthorhombic_face      |-> [syngony |-> "orthorhombic", centering |-> "F"],
    tetragonal_primitive   |-> [syngony |-> "tetragonal",   centering |-> "P"],
    tetragonal_body        |-> [syngony |-> "tetragonal",   centering |-> "I"],
    hexagonal              |-> [syngony |-> "hexagonal",    centering |-> "P"],
    trigonal_rhombohedral  |-> [syngony |-> "trigonal",     centering |-> "R"],
    cubic_primitive        |-> [syngony |-> "cubic",        centering |-> "P"],
    cubic_body             |-> [syngony |-> "cubic",        centering |-> "I"],
    cubic_face             |-> [syngony |-> "cubic",        centering |-> "F"] ]

(* Identifiers that are not keys of the table *)
UnknownIds == {"cubic", "hexagonal_primitive"}

(* The object before __init__ has set anything *)
NoAttributes == [x \in {} |-> 0]

NoCall == [op |-> "none"]
None == [ndim |-> 0, data |-> <<>>]

----------------------------------------------------------------------------
(* CrystalLattice._apply_syngony_constraints *)

(* the constraints with the hexagonal gamma left at 90 degrees *)
_apply_syngony_constraints_hex90(syngony, a, b, c, alpha, beta, gamma) ==
  IF syngony = "cubic" THEN <<a, a, a, 90, 90, 90>>
  ELSE IF syngony = "tetragonal" THEN <<a, a, c, 90, 90, 90>>
  ELSE IF syngony = "orthorhombic" THEN <<a, b, c, 90, 90, 90>>
  ELSE IF syngony = "hexagonal" THEN <<a, a, c, 90, 90, 90>>
  ELSE IF syngony = "trigonal" THEN <<a, a, a, alpha, alpha, alpha>>
  ELSE IF syngony = "monoclinic" THEN <<a, b, c, 90, beta, 90>>
  ELSE <<a, b, c, alpha, beta, gamma>>

(* the constraints with the tetragonal c taken from b *)
_apply_syngony_constraints_c_from_b(syngony, a, b, c, alpha, beta, gamma) ==
  IF syngony = "cubic" THEN <<a, a, a, 90, 90, 90>>
  ELSE IF syngony = "tetragonal" THEN <<a, a, b, 90, 90, 90>>
  ELSE IF syngony = "orthorhombic" THEN <<a, b, c, 90, 90, 90>>
  ELSE IF syngony = "hexagonal" THEN <<a, a, c, 90, 90, 120>>
  ELSE IF syngony = "trigonal" THEN <<a, a, a, alpha, alpha, alpha>>
  ELSE IF syngony = "monoclinic" THEN <<a, b, c, 90, beta, 90>>
  ELSE <<a, b, c, alpha, beta, gamma>>

_apply_syngony_constraints(syngony, a, b, c, alpha, beta, gamma) ==
  IF syngony = "cubic" THEN <<a, a, a, 90, 90, 90>>
  ELSE IF syngony = "tetragonal" THEN <<a, a, c, 90, 90, 90>>
  ELSE IF syngony = "orthorhombic" THEN <<a, b, c, 90, 90, 90>>
  ELSE IF syngony = "hexagonal" THEN <<a, a, c, 90, 90, 120>>
  ELSE IF syngony = "trigonal" THEN <<a, a, a, alpha, alpha, alpha>>
  ELSE IF syngony = "monoclinic" THEN <<a, b, c, 90, beta, 90>>
  ELSE IF syngony = "triclinic" THEN <<a, b, c, alpha, beta, gamma>>
  ELSE <<a, b, c, alpha, beta, gamma>>

(* CrystalLattice.__init__: the outcome of the constructor call, as the    *)
(* exception raised and the attributes the object has afterwards.          *)

(* the constructor with the identifier checked after the first assignment *)
CrystalLattice_late_check(lattice_type, a, b, c, alpha, beta, gamma) ==
  IF lattice_type \notin DOMAIN LATTICE_TYPES
  THEN [err |-> "ValueError", obj |-> [lattice_type |-> lattice_type]]
  ELSE LET info == LATTICE_TYPES[lattice_type]
           p == _apply_syngony_constraints(info.syngony, a, b, c,
                                           alpha, beta, gamma)
       IN [err |-> "none",
           obj |-> [lattice_type |-> lattice_type, info |-> info,
                    a |-> p[1], b |-> p[2], c |-> p[3],
                    alpha |-> p[4], beta |-> p[5], gamma |-> p[6]]]

(* the constructor rejecting a non-positive edge a *)
CrystalLattice_positive_a(lattice_type, a, b, c, alpha, beta, gamma) ==
  IF lattice_type \notin DOMAIN LATTICE_TYPES \/ a <= 0
  THEN [err |-> "ValueError", obj |-> NoAttributes]
  ELSE LET info == LATTICE_TYPES[lattice_type]
           p == _apply_syngony_constraints(info.syngony, a, b, c,
                                           alpha, beta, gamma)
       IN [err |-> "none",
           obj |-> [lattice_type |-> lattice_type, info |-> info,
                    a |-> p[1], b |-> p[2], c |-> p[3],
                    alpha |-> p[4], beta |-> p[5], gamma |-> p[6]]]

CrystalLattice(lattice_type, a, b, c, alpha, beta, gamma) ==
  IF lattice_type \notin DOMAIN LATTICE_TYPES
  THEN [err |-> "ValueError", obj |-> NoAttributes]
  ELSE LET info == LATTICE_TYPES[lattice_type]
           p == _apply_syngony_constraints(info.syngony, a, b, c,
                                           alpha, beta, gamma)
       IN [err |-> "none",
           obj |-> [lattice_type |-> lattice_type, info |-> info,
                    a |-> p[1], b |-> p[2], c |-> p[3],
                    alpha |-> p[4], beta |-> p[5], gamma |-> p[6]]]

----------------------------------------------------------------------------
(* CrystalLattice.get_basis_positions: fractional offsets scaled by FRAC *)

(* the basis with the face-centred offsets also given to the base-centred *)
(* classes                                                                *)
get_basis_positions_C_as_F(self) ==
  LET centering == self.info.centering
      positions0 == << <<0, 0, 0>> >>
  IN IF centering = "I" THEN positions0 \o << <<3, 3, 3>> >>
     ELSE IF centering \in {"F", "C"}
          THEN positions0 \o << <<3, 3, 0>>, <<3, 0, 3>>, <<0, 3, 3>> >>
     ELSE IF centering = "R"
          THEN positions0 \o << <<2, 4, 4>>, <<4, 2, 2>> >>
     ELSE positions0

(* the basis with the body centre at (0.5, 0.5, 1.0), outside the cell *)
get_basis_positions_I_outside(self) ==
  LET centering == self.info.centering
      positions0 == << <<0, 0, 0>> >>
  IN IF centering = "I" THEN positions0 \o << <<3, 3, 6>> >>
     ELSE IF centering = "F"
          THEN positions0 \o << <<3, 3, 0>>, <<3, 0, 3>>, <<0, 3, 3>> >>
     ELSE IF centering = "C" THEN positions0 \o << <<3, 3, 0>> >>
     ELSE IF centering = "R"
          THEN positions0 \o << <<2, 4, 4>>, <<4, 2, 2>> >>
     ELSE positions0

get_basis_positions(self) ==
  LET centering == self.info.centering
      positions0 == << <<0, 0, 0>> >>
  IN IF centering = "I" THEN positions0 \o << <<3, 3, 3>> >>
     ELSE IF centering = "F"
          THEN positions0 \o << <<3, 3, 0>>, <<3, 0, 3>>, <<0, 3, 3>> >>
     ELSE IF centering = "C" THEN positions0 \o << <<3, 3, 0>> >>
     ELSE IF centering = "R"
          THEN positions0 \o << <<2, 4, 4>>, <<4, 2, 2>> >>
     ELSE positions0

----------------------------------------------------------------------------
(* Floating-point helpers.  A value is an integer or NaN; as in IEEE       *)
(* arithmetic NaN is absorbing (0 * NaN is NaN).  Infinities (a division   *)
(* by zero) are folded into NaN: both are the non-finite values.           *)

FAdd(x, y) == IF x = NaN \/ y = NaN THEN NaN ELSE x + y

FMul(x, y) == IF x = NaN \/ y = NaN THEN NaN ELSE x * y

Abs(x) == IF x < 0 THEN 0 - x ELSE x

FDiv(x, y) ==
  IF x = NaN \/ y = NaN \/ y = 0 THEN NaN
  ELSE IF (x < 0) = (y < 0) THEN Abs(x) \div Abs(y)
       ELSE 0 - (Abs(x) \div Abs(y))

RECURSIVE SqrtSearch(_, _, _)
SqrtSearch(lo, hi, x) ==
  IF lo >= hi THEN lo
  ELSE LET mid == (lo + hi + 1) \div 2
       IN IF mid <= x \div mid THEN SqrtSearch(mid, hi, x)
          ELSE SqrtSearch(lo, mid - 1, x)

(* np.sqrt: NaN for a negative radicand (a warning, not an exception) *)
FSqrt(x) == IF x = NaN \/ x < 0 THEN NaN ELSE SqrtSearch(0, x, x)

(* np.cos / np.sin of np.radians(deg), scaled by TRIG *)
TrigAngles == {0, 60, 70, 90, 120, 180}

Cos(deg) == CASE deg = 0 -> 1000 [] deg = 60 -> 500 [] deg = 70 -> 342
              [] deg = 90 -> 0 [] deg = 120 -> 0 - 500 [] deg = 180 -> 0 - 1000

Sin(deg) == CASE deg = 0 -> 0 [] deg = 60 -> 866 [] deg = 70 -> 940
              [] deg = 90 -> 1000 [] deg = 120 -> 866 [] deg = 180 -> 0

(* get_lattice_vectors with the components of b exchanged *)
get_lattice_vectors_b_swapped(self) ==
  LET ax == self.a * TRIG
      bx == self.b * Sin(self.gamma)
      by == self.b * Cos(self.gamma)
      cx == self.c * Cos(self.beta)
      cy == FDiv(self.c * (Cos(self.alpha) * TRIG
                            - Cos(self.beta) * Cos(self.gamma)),
                 Sin(self.gamma))
      cz == FSqrt(FAdd(self.c * self.c * TRIG * TRIG - cx * cx,
                       IF cy = NaN THEN NaN ELSE 0 - cy * cy))
  IN << <<ax, 0, 0>>, <<bx, by, 0>>, <<cx, cy, cz>> >>

(* CrystalLattice.get_lattice_vectors: rows a, b, c, components scaled by TRIG *)
get_lattice_vectors(self) ==
  LET ax == self.a * TRIG
      bx == self.b * Cos(self.gamma)
      by == self.b * Sin(self.gamma)
      cx == self.c * Cos(self.beta)
      cy == FDiv(self.c * (Cos(self.alpha) * TRIG
                            - Cos(self.beta) * Cos(self.gamma)),
                 Sin(self.gamma))
      cz == FSqrt(FAdd(self.c * self.c * TRIG * TRIG - cx * cx,
                       IF cy = NaN THEN NaN ELSE 0 - cy * cy))
  IN << <<ax, 0, 0>>, <<bx, by, 0>>, <<cx, cy, cz>> >>

----------------------------------------------------------------------------
(* The random generator behind np.random.normal: a state in 0..RngPeriod-1,*)
(* each draw returns a standard deviate in {-1, 0, 1} and advances it.     *)

RngStates == 0 .. (RngPeriod - 1)

NextRng(s) == (s + 1) % RngPeriod

Normal(s) == (s % 3) - 1

(* np.array(list of points): an empty list gives a 1-D array of shape (0,) *)
NpArray(list) ==
  IF list = <<>> THEN [ndim |-> 1, data |-> <<>>]
  ELSE [ndim |-> 2, data |-> list]

(* len(array) *)
len(arr) == Len(arr.data)

----------------------------------------------------------------------------
(* The loop nest shared verbatim by generate_lattice and generate_chunk.   *)
(* ctx holds the loop-invariant values; a loop run with the generator in  *)
(* state s yields the points it appends, in order, and the state the      *)
(* generator is left in.                                                   *)

(* the coordinate with the cells counted from 1 *)
atom_coord_one_based(lv, i, j, k, basis_pos, d) ==
  LET cell_origin == FAdd(FAdd(FMul(FRAC * (i + 1), lv[1][d]),
                               FMul(FRAC * (j + 1), lv[2][d])),
                          FMul(FRAC * (k + 1), lv[3][d]))
  IN FAdd(FAdd(FAdd(cell_origin, FMul(basis_pos[1], lv[1][d])),
               FMul(basis_pos[2], lv[2][d])),
          FMul(basis_pos[3], lv[3][d]))

(* one coordinate of cell_origin + basis_pos[0]*v[0] + ... *)
atom_coord(lv, i, j, k, basis_pos, d) ==
  LET cell_origin == FAdd(FAdd(FMul(FRAC * i, lv[1][d]),
                               FMul(FRAC * j, lv[2][d])),
                          FMul(FRAC * k, lv[3][d]))
  IN FAdd(FAdd(FAdd(cell_origin, FMul(basis_pos[1], lv[1][d])),
               FMul(basis_pos[2], lv[2][d])),
          FMul(basis_pos[3], lv[3][d]))

(* the loop body with the noise added whether or not add_noise is set *)
append_atom_always_noise(ctx, i, j, k, basis_pos, s) ==
  LET atom_pos == [d \in 1..3 |-> atom_coord(ctx.lv, i, j, k, basis_pos, d)]
      s2 == NextRng(s)
      s3 == NextRng(s2)
      sigma == ctx.noise_level * ctx.a
      noise == <<sigma * Normal(s), sigma * Normal(s2), sigma * Normal(s3)>>
  IN [positions |-> << [d \in 1..3 |-> FAdd(atom_pos[d], noise[d])] >>,
      rng |-> NextRng(s3)]

(* body of the basis loop, run with the generator in state s: the point   *)
(* appended and the state the generator is left in                         *)
append_atom(ctx, i, j, k, basis_pos, s) ==
  LET atom_pos == [d \in 1..3 |-> atom_coord(ctx.lv, i, j, k, basis_pos, d)]
      s2 == NextRng(s)
      s3 == NextRng(s2)
      sigma == ctx.noise_level * ctx.a
      noise == <<sigma * Normal(s), sigma * Normal(s2), sigma * Normal(s3)>>
  IN IF ctx.add_noise
     THEN [positions |-> << [d \in 1..3 |-> FAdd(atom_pos[d], noise[d])] >>,
           rng |-> NextRng(s3)]
     ELSE [positions |-> << atom_pos >>, rng |-> s]

(* what the rest of the loop yields put in front: positions.insert(0, ..) *)
then_in_front(st, rest) ==
  [positions |-> rest.positions \o st.positions, rng |-> rest.rng]

(* st followed by what the rest of the loop appends *)
then(st, rest) ==
  [positions |-> st.positions \o rest.positions, rng |-> rest.rng]

RECURSIVE basis_loop(_, _, _, _, _, _)
basis_loop(ctx, i, j, k, m, s) ==
  IF m > Len(ctx.basis) THEN [positions |-> <<>>, rng |-> s]
  ELSE LET st == append_atom(ctx, i, j, k, ctx.basis[m], s)
       IN then(st, basis_loop(ctx, i, j, k, m + 1, st.rng))

(* the k loop running up to and including nz_end *)
RECURSIVE k_loop_inclusive(_, _, _, _, _)
k_loop_inclusive(ctx, i, j, k, s) ==
  IF k > ctx.nz_end THEN [positions |-> <<>>, rng |-> s]
  ELSE LET st == basis_loop(ctx, i, j, k, 1, s)
       IN then(st, k_loop_inclusive(ctx, i, j, k + 1, st.rng))

RECURSIVE k_loop(_, _, _, _, _)
k_loop(ctx, i, j, k, s) ==
  IF k >= ctx.nz_end THEN [positions |-> <<>>, rng |-> s]
  ELSE LET st == basis_loop(ctx, i, j, k, 1, s)
       IN then(st, k_loop(ctx, i, j, k + 1, st.rng))

RECURSIVE j_loop(_, _, _, _)
j_loop(ctx, i, j, s) ==
  IF j >= ctx.ny THEN [positions |-> <<>>, rng |-> s]
  ELSE LET st == k_loop(ctx, i, j, ctx.nz_start, s)
       IN then(st, j_loop(ctx, i, j + 1, st.rng))

(* the i loop running up to and including nx *)
RECURSIVE i_loop_inclusive(_, _, _)
i_loop_inclusive(ctx, i, s) ==
  IF i > ctx.nx THEN [positions |-> <<>>, rng |-> s]
  ELSE LET st == j_loop(ctx, i, 0, s)
       IN then(st, i_loop_inclusive(ctx, i + 1, st.rng))

RECURSIVE i_loop(_, _, _)
i_loop(ctx, i, s) ==
  IF i >= ctx.nx THEN [positions |-> <<>>, rng |-> s]
  ELSE LET st == j_loop(ctx, i, 0, s)
       IN then(st, i_loop(ctx, i + 1, st.rng))

(* CrystalLattice.generate_lattice, run with the generator in state s:     *)
(* the returned array and the state the generator is left in.              *)
generate_lattice(self, nx, ny, nz, add_noise, noise_level, s) ==
  LET ctx == [lv |-> get_lattice_vectors(self),
              basis |-> get_basis_positions(self),
              a |-> self.a, nx |-> nx, ny |-> ny,
              nz_start |-> 0, nz_end |-> nz,
              add_noise |-> add_noise, noise_level |-> noise_level]
      st == i_loop(ctx, 0, s)
  IN [array |-> NpArray(st.positions), rng |-> st.rng]

(* generate_chunk(args), run in a worker whose generator is in state s *)
generate_chunk(args, s) ==
  LET ctx == [lv |-> get_lattice_vectors(args[1]),
              basis |-> get_basis_positions(args[1]),
              a |-> args[1].a, nx |-> args[2], ny |-> args[3],
              nz_start |-> args[4], nz_end |-> args[5],
              add_noise |-> args[6], noise_level |-> args[7]]
      st == i_loop(ctx, 0, s)
  IN [array |-> NpArray(st.positions), rng |-> st.rng]

(* np.zeros((total_atoms, 3)) with the rows 1..Len(rows) assigned *)
zeros_filled(total_atoms, rows) ==
  [ndim |-> 2,
   data |-> [q \in 1..total_atoms |->
               IF q <= Len(rows) THEN rows[q] ELSE <<0, 0, 0>>]]

(* generate_chunk_optimized(args), run in a worker whose generator is in   *)
(* state s: args[1] is (lattice_type, a, b, c, alpha, beta, gamma), from   *)
(* which the worker builds its own lattice; np.zeros refuses a negative    *)
(* number of rows                                                          *)
generate_chunk_optimized(args, s) ==
  LET p == args[1]
      built == CrystalLattice(p[1], p[2], p[3], p[4], p[5], p[6], p[7])
      self == built.obj
      lattice_vectors == get_lattice_vectors(self)
      basis_positions == get_basis_positions(self)
      total_atoms == args[2] * args[3] * (args[5] - args[4])
                       * Len(basis_positions)
      ctx == [lv |-> lattice_vectors, basis |-> basis_positions,
              a |-> self.a, nx |-> args[2], ny |-> args[3],
              nz_start |-> args[4], nz_end |-> args[5],
              add_noise |-> args[6], noise_level |-> args[7]]
      st == i_loop(ctx, 0, s)
      locals == [lattice |-> self, lattice_vectors |-> lattice_vectors,
                 basis_positions |-> basis_positions]
  IN IF built.err # "none"
     THEN [err |-> built.err, array |-> None, rng |-> s,
           locals |-> [lattice |-> self, lattice_vectors |-> <<>>,
                       basis_positions |-> <<>>]]
     ELSE IF total_atoms < 0
     THEN [err |-> "ValueError", array |-> None, rng |-> s, locals |-> locals]
     ELSE [err |-> "none", array |-> zeros_filled(total_atoms, st.positions),
           rng |-> st.rng, locals |-> locals]

----------------------------------------------------------------------------
(* generate_lattice_parallel: the split of [0, nz) along z *)

Max(x, y) == IF x >= y THEN x ELSE y

(* the chunk size without the floor of 1 *)
chunk_size_floor(nz, n_processes) == nz \div n_processes

chunk_size(nz, n_processes) == Max(1, nz \div n_processes)

nz_start(i, nz, n_processes) == i * chunk_size(nz, n_processes)

(* nz_end without the last chunk taking the remainder *)
nz_end_no_remainder(i, nz, n_processes) ==
  (i + 1) * chunk_size(nz, n_processes)

nz_end(i, nz, n_processes) ==
  IF i = n_processes - 1 THEN nz
  ELSE (i + 1) * chunk_size(nz, n_processes)

(* for i in range(n_processes): ... if nz_start < nz: chunks.append(...) *)
RECURSIVE chunk_loop(_, _, _, _, _, _, _, _, _)
chunk_loop(i, acc, self, nx, ny, nz, add_noise, noise_level, n_processes) ==
  IF i >= n_processes THEN acc
  ELSE chunk_loop(i + 1,
         IF nz_start(i, nz, n_processes) < nz
         THEN Append(acc, <<self, nx, ny, nz_start(i, nz, n_processes),
                            nz_end(i, nz, n_processes), add_noise, noise_level>>)
         ELSE acc,
         self, nx, ny, nz, add_noise, noise_level, n_processes)

(* np.atleast_2d: a 1-D array of n elements becomes one row of n elements *)
atleast_2d(arr) ==
  IF arr.ndim = 1 THEN [ndim |-> 2, data |-> << arr.data >>] ELSE arr

RECURSIVE concat_rows(_, _)
concat_rows(arrs, n) ==
  IF n = 0 THEN <<>> ELSE concat_rows(arrs, n - 1) \o arrs[n].data

(* np.vstack(results): raises ValueError for an empty list and for rows of *)
(* different widths, else stacks the 2-D views in list order.              *)
vstack(arrs) ==
  LET two == [n \in 1..Len(arrs) |-> atleast_2d(arrs[n])]
      width(n) == Len(two[n].data[1])
  IN IF arrs = <<>> THEN [err |-> "ValueError", array |-> None]
     ELSE IF \E n \in 1..Len(arrs) : width(n) # width(1)
          THEN [err |-> "ValueError", array |-> None]
          ELSE [err |-> "none",
                array |-> [ndim |-> 2, data |-> concat_rows(two, Len(two))]]

Pending == [ndim |-> 0 - 1, data |-> <<>>]

(* pool.map(generate_chunk, chunks): what a task of the pool can end as    *)
(* besides an array.  Raised is the exception a task raised, kept by the   *)
(* pool until every task has reported; Lost is a task whose worker process *)
(* died, which the pool never reports and never runs again.                *)
Raised == [ndim |-> 0 - 2, data |-> <<>>]
Lost == [ndim |-> 0 - 3, data |-> <<>>]

(* the outcome of a task goes into the first free slot: the list is in the *)
(* order the tasks report in                                               *)
set_result_arrival(slots, n, value) ==
  LET first == CHOOSE m \in 1..Len(slots) :
                 /\ slots[m] = Pending
                 /\ \A p \in 1..(m - 1) : slots[p] # Pending
  IN [slots EXCEPT ![first] = value]

(* the outcome of task n goes into slot n of the list pool.map returns,    *)
(* whatever the order the tasks report in                                  *)
set_result(slots, n, value) == [slots EXCEPT ![n] = value]

(* the generator stream a chunk drew its noise from *)
NoStream == [origin |-> "none", start |-> 0, after |-> 0]

----------------------------------------------------------------------------
(* create_ionic_lattice, save_ionic_lattice, save_xyz *)

(* the loop started one label late *)
RECURSIVE ionic_loop_from_one(_, _, _)
ionic_loop_from_one(i, n, ion_types) ==
  IF i >= n THEN <<>>
  ELSE << ion_types[((i + 1) % Len(ion_types)) + 1] >>
       \o ionic_loop_from_one(i + 1, n, ion_types)

(* for i in range(len(positions)):                      *)
(*     elements.append(ion_types[i % len(ion_types)])   *)
RECURSIVE ionic_loop(_, _, _)
ionic_loop(i, n, ion_types) ==
  IF i >= n THEN <<>>
  ELSE << ion_types[(i % Len(ion_types)) + 1] >>
       \o ionic_loop(i + 1, n, ion_types)

create_ionic_lattice(pos, ion_types) ==
  IF Len(ion_types) = 1 THEN [i \in 1..len(pos) |-> ion_types[1]]
  ELSE ionic_loop(0, len(pos), ion_types)

(* elements=None *)
NoElements == << "None" >>

(* f"{x:.6f}": a coordinate, held in units of 1/(FRAC*TRIG), rounded to    *)
(* millionths; a non-finite value prints as nan or inf                     *)
Fmt6(x) ==
  IF x = NaN THEN NaN
  ELSE IF x >= 0 THEN (x * 1000 + 3) \div 6
       ELSE 0 - (((0 - x) * 1000 + 3) \div 6)

(* the atom lines written before the loop ends or pos[d] raises *)
RECURSIVE atom_lines(_, _, _, _)
atom_lines(pos, labels, element, n) ==
  IF n > len(pos) \/ (labels # NoElements /\ n > Len(labels))
  THEN [err |-> "none", lines |-> <<>>]
  ELSE IF Len(pos.data[n]) < 3
       THEN [err |-> "IndexError", lines |-> <<>>]
       ELSE LET rest == atom_lines(pos, labels, element, n + 1)
                label == IF labels # NoElements THEN labels[n] ELSE element
            IN [err |-> rest.err,
                lines |-> << <<label, Fmt6(pos.data[n][1]),
                               Fmt6(pos.data[n][2]), Fmt6(pos.data[n][3])>> >>
                          \o rest.lines]

(* a file of the three parts save_xyz writes: the count line, the comment  *)
(* line and the atom lines                                                 *)
NoFile == [exists |-> FALSE, n_atoms |-> 0, comment |-> "", atoms |-> <<>>]

(* save_xyz(filename, positions, element, elements): the file it leaves,   *)
(* and the exception it ends with, if any                                  *)
save_xyz(pos, element, elements) ==
  LET n_atoms == len(pos)
      body == IF elements # NoElements /\ Len(elements) = n_atoms
              THEN atom_lines(pos, elements, element, 1)
              ELSE atom_lines(pos, NoElements, element, 1)
  IN [err |-> body.err,
      file |-> [exists |-> TRUE, n_atoms |-> n_atoms,
                comment |-> "Crystal lattice generated",
                atoms |-> body.lines]]

----------------------------------------------------------------------------
(* The worker count of generate_lattice_parallel.  A Python number is held *)
(* as num/den with its type: an int has den = 1 and float = FALSE.         *)

PyInt(n) == [float |-> FALSE, num |-> n, den |-> 1]
PyFloat(n, d) == [float |-> TRUE, num |-> n, den |-> d]

(* a float worker count of 1 or more taken as its integer part *)
entry_error_truncating(nz, n) ==
  IF n.num = 0 THEN "ZeroDivisionError"
  ELSE IF n.num \div n.den < 1
       THEN (IF n.float THEN "TypeError" ELSE "ValueError")
       ELSE "none"

(* the exception generate_lattice_parallel raises before it has a pool:    *)
(* nz // n_processes divides by zero for 0 and 0.0 (line 306),              *)
(* range(n_processes) takes no float (line 309), Pool(processes=n) takes   *)
(* no count below 1 (line 317)                                             *)
entry_error(nz, n) ==
  IF n.num = 0 THEN "ZeroDivisionError"
  ELSE IF n.float THEN "TypeError"
  ELSE IF n.num < 1 THEN "ValueError"
  ELSE "none"

(* menu.py binds n_processes to cpu_count() (here 1) *)
menu_n_processes_default(vacancy_prob) == PyInt(1)

(* menu.py, single_generation and generate_ionic_dataset: the seventh      *)
(* positional argument of generate_lattice_parallel, n_processes, is       *)
(* vacancy_prob                                                            *)
menu_n_processes(vacancy_prob) == vacancy_prob

----------------------------------------------------------------------------
(* Inputs *)

LatticeIds == DOMAIN LATTICE_TYPES

(* raw (a, b, c, alpha, beta, gamma) used by the generation requests: an   *)
(* anisotropic skewed cell, which every syngony projects differently       *)
GenParams == { <<5, 4, 3, 70, 60, 120>> }

(* raw values for the constructor alone: zero and negative lengths, angles *)
(* outside (0, 180) included                                               *)
AnyLengths == {0 - 2, 0, 5}
AnyAngles == {0 - 30, 90, 200}
AnyParams == { <<a, b, c, al, be, ga>> : a \in AnyLengths, b \in AnyLengths,
               c \in AnyLengths, al \in AnyAngles, be \in AnyAngles,
               ga \in AnyAngles }

Extents == (0..MaxNx) \X (0..MaxNy) \X (0..MaxNz)
(* noise_level, in units of 1/(FRAC*TRIG) of the edge a *)
NoiseLevels == {1, 2}
Workers == 1..MaxW

(* worker counts handed to generate_lattice_parallel by a caller: ints    *)
(* below, at and above 1, floats 0.0, 0.05, 0.5, 2.0 and 2.5               *)
WorkerCounts == {PyInt(0 - 1), PyInt(0), PyInt(1), PyInt(2), PyFloat(0, 1),
                 PyFloat(1, 20), PyFloat(1, 2), PyFloat(2, 1), PyFloat(5, 2)}

(* vacancy_prob in menu.py: 0.0 when vacancies are declined, else the      *)
(* float the user types (0.05 by default; 2.0 and -0.5 are not refused)    *)
VacancyProbs == {PyFloat(0, 1), PyFloat(1, 20), PyFloat(1, 2), PyFloat(2, 1),
                 PyFloat(0 - 1, 2)}
MenuCallers == {"single_generation", "generate_ionic_dataset"}
CountIds == {"cubic_primitive", "cubic_face"}

(* the z sub-ranges and the extents in x and y handed to a worker *)
ChunkRanges == {r \in (0..MaxNz) \X (0..MaxNz) : r[1] <= r[2]}
ChunkExtents == {0, MaxNx} \X {1}

(* cells for get_lattice_vectors: the angles of the table of Cos and Sin,  *)
(* the length c positive, zero and negative (the constructor accepts all)  *)
VectorAngles == { <<70, 60, 120>>, <<90, 90, 90>>, <<60, 60, 60>> }
VectorParams == { <<5, 4, c, an[1], an[2], an[3]>> :
                    c \in {0 - 3, 0, 3}, an \in VectorAngles }

(* the generation requests that go on to write a file: a valid cell, a     *)
(* cell whose c vector has a negative radicand, a cell with gamma = 0      *)
MainIds == {"cubic_primitive", "trigonal_rhombohedral", "triclinic_primitive",
            "cubic"}
DegenerateParams == { <<5, 4, 3, 0, 60, 90>>, <<5, 4, 3, 90, 90, 0>> }
MainParams == GenParams \cup DegenerateParams
MainExtents == {e \in Extents : e[1] <= 1 /\ e[2] <= 1}
Elements == {"C"}
ElementLists == { <<>>, <<"O">>, <<"O", "H">>, <<"O", "H", "H">> }
IonTypes == { <<"Na">>, <<"Na", "Cl">>, <<"Ca", "F", "F">> }

(* the noisy requests: single columns of cells *)
StreamIds == {"cubic_primitive", "cubic_body"}
StreamExtents == {e \in Extents : e[1] = 1 /\ e[2] = 1}

----------------------------------------------------------------------------
(* State machine *)

Init ==
  /\ lattice = NoAttributes
  /\ raw = <<>>
  /\ err = "none"
  /\ call = NoCall
  /\ positions = None
  /\ rng \in RngStates
  /\ pool = "none"
  /\ chunks = <<>>
  /\ results = <<>>
  /\ streams = <<>>
  /\ basis = <<>>
  /\ save_call = NoCall
  /\ file = NoFile
  /\ vectors = <<>>

Constructed == DOMAIN lattice # {}

(* A run constructs one lattice and serves one generation request on it;   *)
(* the generator state it starts from stands for whatever ran before.      *)

(* lattice = CrystalLattice(lattice_type, a, b, c, alpha, beta, gamma) *)
ConstructFrom(Ids, Params) ==
  /\ raw = <<>>
  /\ \E id \in Ids, p \in Params :
       LET r == CrystalLattice(id, p[1], p[2], p[3], p[4], p[5], p[6])
       IN /\ raw' = <<id>> \o p
          /\ lattice' = r.obj
          /\ err' = r.err
  /\ call' = NoCall
  /\ positions' = None
  /\ pool' = "none"
  /\ chunks' = <<>>
  /\ results' = <<>>
  /\ UNCHANGED <<rng, basis, streams, save_call, file, vectors>>

Construct == ConstructFrom(LatticeIds \cup UnknownIds, GenParams)

ConstructAny == ConstructFrom(LatticeIds \cup UnknownIds, AnyParams)

(* positions = lattice.generate_lattice(nx, ny, nz, add_noise, noise_level) *)
GenerateLattice ==
  /\ Constructed
  /\ call = NoCall
  /\ \E e \in Extents, add_noise \in BOOLEAN, noise_level \in NoiseLevels :
       LET r == generate_lattice(lattice, e[1], e[2], e[3],
                                 add_noise, noise_level, rng)
       IN /\ call' = [op |-> "generate_lattice", nx |-> e[1], ny |-> e[2],
                      nz |-> e[3], add_noise |-> add_noise,
                      noise_level |-> noise_level, n_processes |-> 0]
          /\ positions' = r.array
          /\ rng' = r.rng
  /\ err' = "none"
  /\ pool' = "none"
  /\ chunks' = <<>>
  /\ results' = <<>>
  /\ UNCHANGED <<lattice, raw, basis, streams, save_call, file, vectors>>

(* generate_lattice_parallel up to pool.map: the chunks are built and      *)
(* handed to a pool of n_processes workers                                 *)
ParallelCallFrom(Exts, Noise) ==
  /\ Constructed
  /\ call = NoCall
  /\ \E e \in Exts, noise \in Noise, n_processes \in Workers :
       LET add_noise == noise[1]
           noise_level == noise[2]
       IN /\ call' = [op |-> "generate_lattice_parallel", nx |-> e[1],
                      ny |-> e[2], nz |-> e[3], add_noise |-> add_noise,
                      noise_level |-> noise_level,
                      n_processes |-> n_processes]
          /\ chunks' = chunk_loop(0, <<>>, lattice, e[1], e[2], e[3],
                                  add_noise, noise_level, n_processes)
  /\ results' = [n \in 1..Len(chunks') |-> Pending]
  /\ streams' = [n \in 1..Len(chunks') |-> NoStream]
  /\ pool' = "running"
  /\ positions' = None
  /\ err' = "none"
  /\ UNCHANGED <<lattice, raw, rng, basis, save_call, file, vectors>>

(* the requests of Spec run without noise; SpecStreams has the noisy ones *)
ParallelCall == ParallelCallFrom(Extents, {FALSE} \X NoiseLevels)

(* the chunks that have returned an array *)
Returned == {n \in 1..Len(chunks) : results[n] \notin {Pending, Raised, Lost}}

(* the state the generator of the worker of chunk n was left in *)
stream_end(n) == generate_chunk(chunks[n], streams[n].start).rng

(* How Pool started its workers is the default of the platform: fork      *)
(* copies the coordinator with its numpy generator state, spawn starts     *)
(* fresh interpreters in which numpy seeds its generator from the          *)
(* operating system.  It shows in the first stream a worker draws from.    *)
start_method ==
  IF \E n \in 1..Len(streams) : streams[n].origin = "inherited" THEN "fork"
  ELSE IF \E n \in 1..Len(streams) : streams[n].origin = "seeded"
       THEN "spawn" ELSE "default"

(* The generator a worker runs a chunk with.  generate_chunk draws from    *)
(* the global numpy generator of its process and nothing seeds it: the     *)
(* first chunk of a forked worker starts from the state the coordinator    *)
(* had when the pool was created, the first chunk of a spawned worker from *)
(* a state seeded by the operating system, and a later chunk of a worker   *)
(* from the state its previous chunk left.  Without noise nothing is drawn.*)
WorkerStreams(n) ==
  IF ~ call.add_noise THEN {NoStream}
  ELSE (IF start_method = "spawn" THEN {}
        ELSE {[origin |-> "inherited", start |-> rng, after |-> 0]})
       \cup (IF start_method = "fork" THEN {}
             ELSE {[origin |-> "seeded", start |-> s, after |-> 0] :
                     s \in RngStates})
       \cup {[origin |-> "continued", start |-> stream_end(m), after |-> m] :
               m \in {q \in Returned :
                        \A p \in 1..Len(chunks) : streams[p].after # q}}

(* a worker runs generate_chunk on one chunk; the chunks finish in any     *)
(* order                                                                   *)
WorkerDone ==
  /\ pool = "running"
  /\ \E n \in 1..Len(chunks) :
       /\ results[n] = Pending
       /\ \E st \in WorkerStreams(n) :
            /\ results' = set_result(results, n,
                                      generate_chunk(chunks[n], st.start).array)
            /\ streams' = [streams EXCEPT ![n] = st]
  /\ UNCHANGED <<lattice, raw, err, call, positions, rng, pool, chunks, basis,
                 save_call, file, vectors>>

(* generate_chunk raises in a worker (a MemoryError, say): the pool keeps  *)
(* the exception as the outcome of the task                                *)
WorkerRaise ==
  /\ pool = "running"
  /\ \E n \in 1..Len(chunks) :
       /\ results[n] = Pending
       /\ results' = set_result(results, n, Raised)
  /\ UNCHANGED <<lattice, raw, err, call, positions, rng, pool, chunks,
                 streams, basis, save_call, file, vectors>>

(* the process of a worker dies while it runs a chunk (killed, out of      *)
(* memory): the pool starts a new worker, the task it ran is never         *)
(* reported                                                                *)
WorkerCrash ==
  /\ pool = "running"
  /\ \E n \in 1..Len(chunks) :
       /\ results[n] = Pending
       /\ results' = [results EXCEPT ![n] = Lost]
  /\ UNCHANGED <<lattice, raw, err, call, positions, rng, pool, chunks,
                 streams, basis, save_call, file, vectors>>

(* the results stacked as soon as one task has reported, the others still *)
(* running                                                                 *)
Join_first_result ==
  /\ pool = "running"
  /\ \E n \in 1..Len(chunks) : results[n] \notin {Pending, Raised, Lost}
  /\ pool' = "closed"
  /\ LET arrived(r) == r \notin {Pending, Raised, Lost}
         v == vstack(SelectSeq(results, arrived))
     IN /\ err' = v.err
        /\ positions' = v.array
  /\ UNCHANGED <<lattice, raw, call, rng, chunks, results, streams, basis,
                 save_call, file, vectors>>

(* pool.map returns once every task has reported: it raises the exception  *)
(* of a task that raised, else positions = np.vstack(results) is returned; *)
(* leaving the with block ends the pool                                    *)
Join ==
  /\ pool = "running"
  /\ \A n \in 1..Len(chunks) : results[n] \notin {Pending, Lost}
  /\ pool' = "closed"
  /\ IF \E n \in 1..Len(chunks) : results[n] = Raised
     THEN /\ err' = "WorkerError"
          /\ positions' = None
     ELSE LET v == vstack(results)
          IN /\ err' = v.err
             /\ positions' = v.array
  /\ UNCHANGED <<lattice, raw, call, rng, chunks, results, streams, basis,
                 save_call, file, vectors>>

Next == Construct \/ GenerateLattice \/ ParallelCall \/ WorkerDone \/ Join

Spec == Init /\ [][Next]_vars

(* basis_positions = lattice.get_basis_positions() *)
GetBasisPositions ==
  /\ Constructed
  /\ basis = <<>>
  /\ basis' = get_basis_positions(lattice)
  /\ UNCHANGED <<lattice, raw, err, call, positions, rng, pool, chunks,
                 results, streams, save_call, file, vectors>>

(* generate_lattice_parallel(lattice, nx, ny, nz, add_noise, noise_level,  *)
(* n_processes) for any number as n_processes, up to pool.map              *)
ParallelCallWith(Exts, Noise, Counts, Callers) ==
  /\ Constructed
  /\ call = NoCall
  /\ \E e \in Exts, noise \in Noise, n \in Counts, caller \in Callers :
       LET error == entry_error(e[3], n)
       IN /\ call' = [op |-> "generate_lattice_parallel", nx |-> e[1],
                      ny |-> e[2], nz |-> e[3], add_noise |-> noise[1],
                      noise_level |-> noise[2], n_processes |-> n,
                      caller |-> caller]
          /\ err' = error
          /\ chunks' = IF error # "none" THEN <<>>
                       ELSE chunk_loop(0, <<>>, lattice, e[1], e[2], e[3],
                                       noise[1], noise[2], n.num \div n.den)
          /\ pool' = IF error # "none" THEN "none" ELSE "running"
  /\ results' = [n \in 1..Len(chunks') |-> Pending]
  /\ streams' = [n \in 1..Len(chunks') |-> NoStream]
  /\ positions' = None
  /\ UNCHANGED <<lattice, raw, rng, basis, save_call, file, vectors>>

ConstructCounts == ConstructFrom(CountIds, GenParams)

(* a caller that names its worker count *)
ParallelCallCounts ==
  ParallelCallWith(MainExtents, { <<FALSE, 1>> }, WorkerCounts, {"caller"})

(* the generation of menu.py, single_generation (line 154) and             *)
(* generate_ionic_dataset (line 343), reached once the lattice is built    *)
MenuGeneration ==
  /\ err = "none"
  /\ ParallelCallWith(MainExtents, { <<FALSE, 1>> },
                      {menu_n_processes(p) : p \in VacancyProbs}, MenuCallers)

(* lattice_vectors = lattice.get_lattice_vectors() *)
GetLatticeVectors ==
  /\ Constructed
  /\ vectors = <<>>
  /\ vectors' = get_lattice_vectors(lattice)
  /\ UNCHANGED <<lattice, raw, err, call, positions, rng, pool, chunks,
                 results, basis, streams, save_call, file>>

ConstructVectors == ConstructFrom(LatticeIds, VectorParams)

(* the cell vectors of a lattice *)
NextVectors == ConstructVectors \/ GetLatticeVectors

SpecVectors == Init /\ [][NextVectors]_vars

(* the lattice object alone: the constructor over the wide raw parameters  *)
(* and the query of its basis                                              *)
NextLattice == ConstructAny \/ GetBasisPositions

SpecLattice == Init /\ [][NextLattice]_vars

(* save_xyz(output_file, positions, element), as main and interactive_mode *)
(* call it once generate_lattice_parallel has returned, or with a label    *)
(* list of the caller                                                      *)
SaveXyz ==
  /\ call.op = "generate_lattice_parallel"
  /\ pool = "closed"
  /\ err = "none"
  /\ ~ file.exists
  /\ \E element \in Elements, elems \in {NoElements} \cup ElementLists :
       LET w == save_xyz(positions, element, elems)
       IN /\ save_call' = [op |-> "save_xyz", element |-> element,
                           elements |-> elems]
          /\ file' = w.file
          /\ err' = w.err
  /\ UNCHANGED <<lattice, raw, call, positions, rng, pool, chunks, results,
                 basis, streams, vectors>>

(* save_ionic_lattice(output_file, positions, ion_types) *)
SaveIonicLattice ==
  /\ call.op = "generate_lattice_parallel"
  /\ pool = "closed"
  /\ err = "none"
  /\ ~ file.exists
  /\ \E ion_types \in IonTypes :
       LET elements == create_ionic_lattice(positions, ion_types)
           w == save_xyz(positions, "C", elements)
       IN /\ save_call' = [op |-> "save_ionic_lattice",
                           ion_types |-> ion_types, elements |-> elements]
          /\ file' = w.file
          /\ err' = w.err
  /\ UNCHANGED <<lattice, raw, call, positions, rng, pool, chunks, results,
                 basis, streams, vectors>>

ConstructMain == ConstructFrom(MainIds, MainParams)

ParallelCallMain == ParallelCallFrom(MainExtents, { <<FALSE, 1>> })

(* a generation request from the lattice to the file, as main runs it,     *)
(* workers that fail included                                              *)
NextMain ==
  \/ ConstructMain \/ ParallelCallMain \/ WorkerDone \/ WorkerRaise
  \/ WorkerCrash \/ Join \/ SaveXyz \/ SaveIonicLattice

SpecMain == Init /\ [][NextMain]_vars

(* the operating system schedules the workers: a task that is pending      *)
(* ends, by returning, raising or the death of its process; and the        *)
(* coordinator, once pool.map can return, goes on                          *)
SpecMainFair ==
  /\ SpecMain
  /\ WF_vars(WorkerCrash \/ WorkerRaise \/ WorkerDone)
  /\ WF_vars(Join)

(* generate_chunk_optimized on a sub-range, with the identifier and the    *)
(* parameters of the coordinator's lattice as its first argument           *)
GenerateChunkOptimized ==
  /\ Constructed
  /\ call = NoCall
  /\ \E e \in ChunkExtents, r \in ChunkRanges, add_noise \in BOOLEAN :
       LET args == << <<lattice.lattice_type, lattice.a, lattice.b, lattice.c,
                        lattice.alpha, lattice.beta, lattice.gamma>>,
                      e[1], e[2], r[1], r[2], add_noise, 1>>
           w == generate_chunk_optimized(args, rng)
       IN /\ call' = [op |-> "generate_chunk_optimized", nx |-> e[1],
                      ny |-> e[2], nz_start |-> r[1], nz_end |-> r[2],
                      add_noise |-> add_noise, noise_level |-> 1,
                      locals |-> w.locals]
          /\ err' = w.err
          /\ positions' = w.array
          /\ rng' = w.rng
  /\ UNCHANGED <<lattice, raw, pool, chunks, results, basis, streams,
                 save_call, file, vectors>>

(* a lattice of any class and the chunk a worker computes from its         *)
(* identifier and parameters                                               *)
NextOptimized == ConstructVectors \/ GenerateChunkOptimized

SpecOptimized == Init /\ [][NextOptimized]_vars

(* generation requests with a worker count given by the caller, and the    *)
(* file they go on to write                                                *)
NextCounts ==
  \/ ConstructCounts \/ ParallelCallCounts \/ MenuGeneration \/ WorkerDone
  \/ Join \/ SaveXyz

SpecCounts == Init /\ [][NextCounts]_vars

ConstructStreams == ConstructFrom(StreamIds, GenParams)

ParallelCallNoisy == ParallelCallFrom(StreamExtents, {TRUE} \X NoiseLevels)

(* the parallel requests with noise *)
NextStreams == ConstructStreams \/ ParallelCallNoisy \/ WorkerDone \/ Join

SpecStreams == Init /\ [][NextStreams]_vars

----------------------------------------------------------------------------
(* Properties *)

Range(seq) == {seq[n] : n \in DOMAIN seq}

(* the multiset of the elements of a sequence *)
SeqToBag(seq) ==
  [x \in Range(seq) |-> Cardinality({n \in DOMAIN seq : seq[n] = x})]

SequentialDone == call.op = "generate_lattice"
ParallelStarted == call.op = "generate_lattice_parallel"
ParallelDone == ParallelStarted /\ pool = "closed"

(* C1: once generate_lattice_parallel has finished a request with noise    *)
(* disabled, it has returned without error an array with the same number   *)
(* of points and the same multiset of points as generate_lattice returns   *)
(* for the same lattice and extents.                                       *)
C1_ParallelMatchesSequential ==
  (ParallelDone /\ ~call.add_noise) =>
     LET seq == generate_lattice(lattice, call.nx, call.ny, call.nz,
                                 FALSE, call.noise_level, rng).array
     IN /\ err = "none"
        /\ len(positions) = len(seq)
        /\ SeqToBag(positions.data) = SeqToBag(seq.data)

(* C2: the z sub-ranges [nz_start, nz_end) dispatched by                   *)
(* generate_lattice_parallel are in ascending order, each one starts where *)
(* the previous one ends, the first starts at 0 and the last ends at nz,   *)
(* and every z index of [0, nz) lies in exactly one of them.               *)
C2_SubRangesPartition ==
  ParallelStarted =>
     /\ \A n \in 1..Len(chunks) : chunks[n][4] < chunks[n][5]
     /\ \A n \in 1..(Len(chunks) - 1) : chunks[n][5] = chunks[n + 1][4]
     /\ Len(chunks) > 0 =>
          (chunks[1][4] = 0 /\ chunks[Len(chunks)][5] = call.nz)
     /\ call.nz = 0 => chunks = <<>>
     /\ \A z \in 0..(call.nz - 1) :
          Cardinality({n \in 1..Len(chunks) :
                         chunks[n][4] <= z /\ z < chunks[n][5]}) = 1

(* nz = 3 over 2 workers: sub-ranges [0,1) and [1,3) *)
C2_Witness ==
  /\ ParallelStarted
  /\ call.nz = 3 /\ call.n_processes = 2
  /\ Len(chunks) = 2 /\ chunks[2][4] = 1 /\ chunks[2][5] = 3

(* C3: generate_lattice returns exactly nx*ny*nz*|basis offsets| points,   *)
(* with noise and without.                                                 *)
C3_PointCount ==
  SequentialDone =>
     len(positions) =
       call.nx * call.ny * call.nz * Len(get_basis_positions(lattice))

(* a noisy request on a face-centred class: 2*1*3 cells of 4 atoms *)
C3_Witness ==
  /\ SequentialDone /\ call.add_noise
  /\ lattice.info.centering = "F"
  /\ call.nx = 2 /\ call.ny = 1 /\ call.nz = 3
  /\ len(positions) = 24

(* C4: with noise disabled, the array generate_lattice returned is the one *)
(* it returns for the same lattice and extents under every noise_level and *)
(* from every state of the random generator, and the call left the         *)
(* generator as it was.                                                    *)
C4_Deterministic ==
  (SequentialDone /\ ~call.add_noise) =>
     \A noise_level \in NoiseLevels, s \in RngStates :
        LET again == generate_lattice(lattice, call.nx, call.ny, call.nz,
                                      FALSE, noise_level, s)
        IN again.array = positions /\ again.rng = s

C4_Witness ==
  /\ SequentialDone /\ ~call.add_noise
  /\ call.noise_level = 2 /\ rng = 1
  /\ len(positions) > 1

(* C5: generate_lattice called with an extent equal to 0 returns an empty  *)
(* array and raises nothing.                                               *)
C5_ZeroExtentEmpty ==
  (SequentialDone /\ (call.nx = 0 \/ call.ny = 0 \/ call.nz = 0)) =>
     (len(positions) = 0 /\ positions # None /\ err = "none")

C5_Witness ==
  /\ SequentialDone
  /\ call.nx = 0 /\ call.ny = 1 /\ call.nz = 3
  /\ len(positions) = 0

(* C6: the canonical parameters stored by the constructor are the row of   *)
(* the syngony table for the class, as a function of the raw arguments.    *)
C6_CanonicalParameters ==
  (raw # <<>> /\ raw[1] \in LatticeIds) =>
     LET syngony == LATTICE_TYPES[raw[1]].syngony
         a == raw[2]
         b == raw[3]
         c == raw[4]
         alpha == raw[5]
         beta == raw[6]
         gamma == raw[7]
         stored == <<lattice.a, lattice.b, lattice.c,
                     lattice.alpha, lattice.beta, lattice.gamma>>
     IN /\ syngony \in {"cubic", "tetragonal", "orthorhombic", "hexagonal",
                        "trigonal", "monoclinic", "triclinic"}
        /\ syngony = "cubic" => stored = <<a, a, a, 90, 90, 90>>
        /\ syngony = "tetragonal" => stored = <<a, a, c, 90, 90, 90>>
        /\ syngony = "orthorhombic" => stored = <<a, b, c, 90, 90, 90>>
        /\ syngony = "hexagonal" => stored = <<a, a, c, 90, 90, 120>>
        /\ syngony = "trigonal" => stored = <<a, a, a, alpha, alpha, alpha>>
        /\ syngony = "monoclinic" => stored = <<a, b, c, 90, beta, 90>>
        /\ syngony = "triclinic" => stored = <<a, b, c, alpha, beta, gamma>>

(* a hexagonal lattice built from raw b # a and gamma = 200 *)
C6_Witness ==
  /\ raw # <<>> /\ raw[1] = "hexagonal"
  /\ raw[2] = 5 /\ raw[3] = 0 /\ raw[7] = 200
  /\ lattice.b = 5 /\ lattice.gamma = 120

(* C7: after a constructor call with an identifier that is not a key of    *)
(* LATTICE_TYPES the call has raised, the object has no attribute, and no  *)
(* basis, chunk or array of points exists.                                 *)
C7_UnknownIdNoState ==
  (raw # <<>> /\ raw[1] \notin DOMAIN LATTICE_TYPES) =>
     /\ err = "ValueError"
     /\ DOMAIN lattice = {}
     /\ basis = <<>>
     /\ call = NoCall /\ chunks = <<>> /\ results = <<>>
     /\ positions = None

C7_Witness ==
  /\ raw # <<>> /\ raw[1] = "hexagonal_primitive"
  /\ err = "ValueError"

(* C8: the table has 14 identifiers, and a constructor call succeeds if    *)
(* and only if its identifier is one of them, whatever the six numbers.    *)
C8_OnlyIdentifierFails ==
  /\ Cardinality(DOMAIN LATTICE_TYPES) = 14
  /\ raw # <<>> =>
       /\ (err = "none") <=> (raw[1] \in DOMAIN LATTICE_TYPES)
       /\ (err = "none") <=> Constructed
       /\ err \in {"none", "ValueError"}

(* built from zero and negative lengths and angles outside (0, 180) *)
C8_Witness ==
  /\ raw = <<"triclinic_primitive", 0, 0 - 2, 0 - 2, 0 - 30, 200, 200>>
  /\ err = "none" /\ Constructed

(* C9: get_basis_positions returns (0,0,0) followed by the offsets of the  *)
(* centering code of the class: 1, 2, 2, 4, 3 offsets for P, I, C, F, R    *)
(* (coordinates in sixths).                                                *)
C9_BasisOffsets ==
  basis # <<>> =>
     LET centering == LATTICE_TYPES[raw[1]].centering
         additional ==
           CASE centering = "I" -> << <<3, 3, 3>> >>
             [] centering = "F" -> << <<3, 3, 0>>, <<3, 0, 3>>, <<0, 3, 3>> >>
             [] centering = "C" -> << <<3, 3, 0>> >>
             [] centering = "R" -> << <<2, 4, 4>>, <<4, 2, 2>> >>
             [] centering = "P" -> <<>>
         count ==
           CASE centering = "P" -> 1 [] centering = "I" -> 2
             [] centering = "C" -> 2 [] centering = "F" -> 4
             [] centering = "R" -> 3
     IN /\ basis[1] = <<0, 0, 0>>
        /\ basis = << <<0, 0, 0>> >> \o additional
        /\ Len(basis) = count

(* the base-centred monoclinic class *)
C9_Witness ==
  /\ raw # <<>> /\ raw[1] = "monoclinic_base"
  /\ basis = << <<0, 0, 0>>, <<3, 3, 0>> >>

(* C10 as stated: the basis list has 1, 2 or 4 elements and every          *)
(* coordinate lies in [0, 1).                                              *)
C10_Original ==
  basis # <<>> =>
     /\ Len(basis) \in {1, 2, 4}
     /\ \A n \in 1..Len(basis), d \in 1..3 :
          0 <= basis[n][d] /\ basis[n][d] < FRAC

(* C10 amended: the basis list has 1, 2, 3 or 4 elements (3 for the        *)
(* rhombohedral centering) and every coordinate lies in [0, 1).            *)
C10_BasisInUnitCell ==
  basis # <<>> =>
     /\ Len(basis) \in {1, 2, 3, 4}
     /\ \A n \in 1..Len(basis), d \in 1..3 :
          0 <= basis[n][d] /\ basis[n][d] < FRAC

C10_Witness ==
  /\ raw # <<>> /\ raw[1] = "trigonal_rhombohedral"
  /\ Len(basis) = 3

----------------------------------------------------------------------------
(* Worker failure, result order, random streams *)

WorkerFailed == \E n \in 1..Len(chunks) : results[n] \in {Raised, Lost}

(* pool.map waits for a task that will never report while no task is left *)
(* running: no step of the call is possible any more                       *)
MapBlocked ==
  /\ pool = "running"
  /\ \A n \in 1..Len(chunks) : results[n] # Pending
  /\ \E n \in 1..Len(chunks) : results[n] = Lost

(* C11: once a worker of generate_lattice_parallel has failed, by raising  *)
(* in generate_chunk or by its process dying, the call returns no array,   *)
(* is not left waiting for ever, and ends with an error.                   *)
C11_WorkerFailureFailsCall ==
  (ParallelStarted /\ WorkerFailed) =>
    /\ positions = None
    /\ ~ MapBlocked
    /\ pool = "closed" => err # "none"

(* the rows np.vstack takes from the chunks submitted before chunk n *)
RECURSIVE RowsBefore(_)
RowsBefore(n) ==
  IF n <= 1 THEN 0
  ELSE RowsBefore(n - 1) + Len(atleast_2d(results[n - 1]).data)

(* C12: the array generate_lattice_parallel returns is the concatenation   *)
(* of the chunk results in ascending nz_start (submission) order: the rows *)
(* of chunk n follow the rows of all chunks with a smaller nz_start,       *)
(* whatever the order the workers completed in.                            *)
C12_SubmissionOrder ==
  (ParallelDone /\ err = "none") =>
    /\ \A n \in 1..(Len(chunks) - 1) : chunks[n][4] < chunks[n + 1][4]
    /\ \A n \in 1..Len(chunks) :
         LET chunk == generate_chunk(chunks[n], streams[n].start).array
             expected == atleast_2d(chunk).data
         IN \A q \in 1..Len(expected) :
              positions.data[RowsBefore(n) + q] = expected[q]
    /\ len(positions) = RowsBefore(Len(chunks) + 1)

(* a finished call of two or more chunks with different points *)
C12_Witness ==
  /\ ParallelDone
  /\ err = "none"
  /\ Len(chunks) >= 2
  /\ results[1] # results[2]
  /\ len(positions) >= 2

(* C13: in a parallel run with noise, every worker draws its noise from a  *)
(* random stream of its own: no worker starts from the generator state of  *)
(* the coordinator, which is the state a seed set by the caller leaves and *)
(* the state every other such worker starts from.                          *)
C13_IndependentStreams ==
  (ParallelStarted /\ call.add_noise) =>
    \A n \in 1..Len(chunks) : streams[n].origin # "inherited"

----------------------------------------------------------------------------
(* File output *)

(* gamma of 0 or 180 degrees, or a c vector whose z component is the root  *)
(* of a negative number                                                    *)
DegenerateGeometry ==
  /\ Constructed
  /\ \/ lattice.gamma \in {0, 180}
     \/ get_lattice_vectors(lattice)[3][3] = NaN

(* C14: when the lattice class is unknown, the cell geometry is degenerate *)
(* or a worker has failed, the generation request writes no output file.   *)
C14_NoFileOnError ==
  (raw # <<>> /\ (\/ raw[1] \notin LatticeIds
                  \/ DegenerateGeometry
                  \/ WorkerFailed))
    => ~ file.exists

(* C15: create_ionic_lattice returns one label per point, and the label   *)
(* of point i (counted from 0) is ion_types[i mod len(ion_types)].         *)
C15_LabelsCycle ==
  save_call.op = "save_ionic_lattice" =>
    /\ Len(save_call.elements) = len(positions)
    /\ \A i \in 0..(len(positions) - 1) :
         save_call.elements[i + 1] =
           save_call.ion_types[(i % Len(save_call.ion_types)) + 1]

(* more points than labels, so that the labels wrap around *)
C15_Witness ==
  /\ save_call.op = "save_ionic_lattice"
  /\ Len(save_call.ion_types) >= 2
  /\ len(positions) > Len(save_call.ion_types)
  /\ len(positions) % Len(save_call.ion_types) # 0

(* C16: a file written by save_xyz holds the count line N, the comment     *)
(* line and exactly N atom lines, one per point and in the order of the    *)
(* points, where N is the number of points the generator returned.         *)
C16_FileShape ==
  file.exists =>
    /\ file.n_atoms = call.nx * call.ny * call.nz
                        * Len(get_basis_positions(lattice))
    /\ Len(file.atoms) = file.n_atoms
    /\ \A n \in 1..Len(file.atoms) :
         \A d \in 1..3 : file.atoms[n][d + 1] = Fmt6(positions.data[n][d])

----------------------------------------------------------------------------
(* Coordinates and order of the points *)

(* the place in the array of the point of cell (i, j, k) and basis offset  *)
(* m (counted from 1), for a request of ny by nz cells per layer           *)
PointIndex(i, j, k, m, ny, nz, nb) == ((i * ny + j) * nz + k) * nb + m

(* the coordinate that stands for the length 1 *)
Unit == FRAC * TRIG

(* a times x/FRAC as a coordinate: basis offsets are held in units of      *)
(* 1/FRAC                                                                  *)
Edges(a, x) == a * TRIG * x

OffsetPoint(lv, u, v, w) ==
  [d \in 1..3 |-> u * lv[1][d] + v * lv[2][d] + w * lv[3][d]]

----------------------------------------------------------------------------
(* The sub-ranges of generate_lattice_parallel *)

(* the (nz_start, nz_end) pairs of the chunks dispatched, in order *)
Dispatched == [n \in 1..Len(chunks) |-> <<chunks[n][4], chunks[n][5]>>]

(* sub-range i of W (counted from 0) for chunks of size: the last one runs *)
(* to nz                                                                   *)
SubRange(i, size, nz, W) ==
  IF i < W - 1 THEN <<i * size, (i + 1) * size>> ELSE <<(W - 1) * size, nz>>

NotEmpty(r) == r[2] - r[1] # 0

(* C19 as stated: sub-range i < W - 1 is [i*floor(nz/W), (i+1)*floor(nz/W)),*)
(* the last one runs from (W-1)*floor(nz/W) to nz, and exactly the         *)
(* sub-ranges of size 0 are not dispatched.                                *)
C19_Original ==
  ParallelStarted =>
    LET W == call.n_processes
        all == [n \in 1..W |-> SubRange(n - 1, call.nz \div W, call.nz, W)]
    IN Dispatched = SelectSeq(all, NotEmpty)

(* C19 amended: with s = max(1, floor(nz/W)), sub-range i < W - 1 is       *)
(* [i*s, (i+1)*s), the last one runs from (W-1)*s to nz, and exactly the   *)
(* sub-ranges that start at or beyond nz are not dispatched.               *)
C19_SubRanges ==
  ParallelStarted =>
    LET W == call.n_processes
        s == IF call.nz \div W >= 1 THEN call.nz \div W ELSE 1
        all == [n \in 1..W |-> SubRange(n - 1, s, call.nz, W)]
        StartsInside(r) == r[1] < call.nz
    IN Dispatched = SelectSeq(all, StartsInside)

(* fewer layers than workers, and more than one layer *)
C19_Witness ==
  /\ ParallelStarted
  /\ call.nz < call.n_processes
  /\ call.nz >= 2
  /\ Dispatched = << <<0, 1>>, <<1, 2>> >>

(* C20: generate_lattice appends the points in lexicographic order of     *)
(* (i, j, k, basis index): the point of cell (i, j, k) and basis offset m  *)
(* is at place ((i*ny + j)*nz + k)*|basis| + m of the array, with noise    *)
(* (where it lies within the noise amplitude of its lattice point) and     *)
(* without (where it is the lattice point).                                *)
C20_LexicographicOrder ==
  SequentialDone =>
    LET B == get_basis_positions(lattice)
        nb == Len(B)
        lv == get_lattice_vectors(lattice)
        amplitude == IF call.add_noise THEN call.noise_level * Abs(lattice.a)
                     ELSE 0
    IN /\ len(positions) = call.nx * call.ny * call.nz * nb
       /\ \A i \in 0..(call.nx - 1), j \in 0..(call.ny - 1),
             k \in 0..(call.nz - 1), m \in 1..nb :
            \A d \in 1..3 :
              Abs(positions.data[PointIndex(i, j, k, m, call.ny, call.nz, nb)][d]
                  - atom_coord(lv, i, j, k, B[m], d)) <= amplitude

(* a noisy request over several cells in each direction and a basis of     *)
(* several offsets                                                         *)
C20_Witness ==
  /\ SequentialDone
  /\ call.add_noise
  /\ call.nx >= 2 /\ call.ny >= 2 /\ call.nz >= 2
  /\ Len(get_basis_positions(lattice)) >= 2
  /\ \E n \in 1..len(positions) : \E d \in 1..3 :
       positions.data[n][d] # positions.data[1][d] /\ n > 1

----------------------------------------------------------------------------
(* The join of generate_lattice_parallel *)

(* np.vstack has been entered: it returned an array or raised *)
Concatenated == positions # None \/ err = "ValueError"

(* C21: generate_lattice_parallel concatenates only after every dispatched *)
(* job has completed: in no state has np.vstack been entered or an array   *)
(* been returned while a dispatched job is still pending or running.       *)
C21_JoinBarrier ==
  (ParallelStarted /\ Concatenated) =>
    \A n \in 1..Len(chunks) : results[n] \notin {Pending, Raised, Lost}

(* an array returned from two or more jobs *)
C21_Witness ==
  /\ ParallelStarted
  /\ positions # None
  /\ Len(chunks) >= 2
  /\ \A n \in 1..Len(chunks) : results[n] \notin {Pending, Raised, Lost}

(* C22: every call of generate_lattice_parallel eventually finishes, by    *)
(* returning an array or by failing with an error, when the workers are    *)
(* scheduled fairly, also when a worker raises or its process dies.        *)
C22_CallFinishes == ParallelStarted ~> (pool = "closed")

----------------------------------------------------------------------------
(* The cell vectors *)

(* c * sqrt(1 - cos^2(beta) - k^2), k = (cos alpha - cos beta cos gamma) /  *)
(* sin gamma, scaled by TRIG                                               *)
SignedCz(self) ==
  LET k == FDiv(Cos(self.alpha) * TRIG - Cos(self.beta) * Cos(self.gamma),
                Sin(self.gamma))
      root == FSqrt(FAdd(TRIG * TRIG - Cos(self.beta) * Cos(self.beta),
                         IF k = NaN THEN NaN ELSE 0 - k * k))
  IN FMul(self.c, root)

(* equal up to the rounding of the two square roots *)
Near(x, y, c) ==
  IF x = NaN \/ y = NaN THEN x = y ELSE Abs(x - y) <= 2 * Abs(c) + 2

(* C23: get_lattice_vectors returns vectorA = (a, 0, 0), vectorB with zero *)
(* z component and vectorC with z component                                *)
(* c * sqrt(1 - cos^2(beta) - k^2), which has the sign of c; for the       *)
(* right-angle syngonies vectorC = (0, 0, c).                              *)
C23_VectorCSign ==
  vectors # <<>> =>
    /\ vectors[1] = <<lattice.a * TRIG, 0, 0>>
    /\ vectors[2][3] = 0
    /\ Near(vectors[3][3], SignedCz(lattice), lattice.c)
    /\ lattice.info.syngony \in {"cubic", "tetragonal", "orthorhombic"} =>
         vectors[3] = <<0, 0, lattice.c * TRIG>>

----------------------------------------------------------------------------
(* Worker counts *)

(* n is a positive integer *)
PositiveInteger(n) == ~ n.float /\ n.num >= 1

(* C24: generate_lattice_parallel called with a worker count that is not a *)
(* positive integer (a fractional value, 0 or 0.0 among them) fails with   *)
(* an error before any worker is started and returns no array, for every   *)
(* nz.                                                                     *)
C24_WorkerCountChecked ==
  (ParallelStarted /\ ~ PositiveInteger(call.n_processes)) =>
    /\ err \in {"ZeroDivisionError", "TypeError", "ValueError"}
    /\ pool = "none"
    /\ chunks = <<>>
    /\ positions = None

(* a fractional worker count above 1, with layers to share out *)
C24_Witness ==
  /\ ParallelStarted
  /\ call.n_processes = PyFloat(5, 2)
  /\ call.nz >= 2
  /\ err = "TypeError"


(* the request in progress is the generation of one of the two menu paths *)
MenuStarted == ParallelStarted /\ call.caller \in MenuCallers

(* C25: single_generation and generate_ionic_dataset of the menu hand the  *)
(* vacancy probability, a float that is 0.0 when vacancies are declined,   *)
(* to generate_lattice_parallel as its worker count; whatever the vacancy  *)
(* choice, the call ends in an error raised inside                         *)
(* generate_lattice_parallel, save_xyz is never reached and no .xyz file   *)
(* is written.                                                             *)
C25_MenuGenerationFails ==
  MenuStarted =>
    /\ call.n_processes.float
    /\ err \in {"ZeroDivisionError", "TypeError"}
    /\ pool = "none"
    /\ positions = None
    /\ save_call = NoCall
    /\ ~ file.exists

(* vacancies declined in single_generation: the worker count is 0.0 *)
C25_Witness ==
  /\ MenuStarted
  /\ call.caller = "single_generation"
  /\ call.n_processes = PyFloat(0, 1)
  /\ call.nz >= 1
  /\ err = "ZeroDivisionError"


----------------------------------------------------------------------------
(* Parallel order against sequential order *)

(* what generate_lattice returns for the lattice and extents of the call *)
SequentialArray ==
  generate_lattice(lattice, call.nx, call.ny, call.nz, FALSE,
                   call.noise_level, rng).array

(* C26: with one worker, noise disabled and nz >= 1,                       *)
(* generate_lattice_parallel dispatches the single sub-range [0, nz) and   *)
(* returns the points of generate_lattice in the same order; with two or   *)
(* more dispatched sub-ranges and nx*ny > 1 it returns the same multiset   *)
(* of points in another order.                                             *)
C26_OrderAgainstSequential ==
  (ParallelDone /\ ~ call.add_noise) =>
    /\ (call.n_processes = 1 /\ call.nz >= 1) =>
         /\ Dispatched = << <<0, call.nz>> >>
         /\ err = "none"
         /\ positions.data = SequentialArray.data
    /\ (Len(chunks) >= 2 /\ call.nx * call.ny > 1) =>
         /\ err = "none"
         /\ positions.data # SequentialArray.data
         /\ SeqToBag(positions.data) = SeqToBag(SequentialArray.data)


----------------------------------------------------------------------------
(* The lattice a worker rebuilds *)

Canonical(self) ==
  <<self.a, self.b, self.c, self.alpha, self.beta, self.gamma>>

OptimizedDone == call.op = "generate_chunk_optimized"

(* C27: _apply_syngony_constraints applied to its own output returns it    *)
(* unchanged; so the lattice generate_chunk_optimized rebuilds from the    *)
(* identifier and the canonical parameters has the canonical parameters,   *)
(* cell vectors and basis offsets of the coordinator's lattice, and with   *)
(* noise disabled the chunk has the points of generate_chunk on the same   *)
(* sub-range, in the same order.                                           *)
C27_RebuiltLatticeSame ==
  /\ Constructed =>
       LET p == Canonical(lattice)
       IN _apply_syngony_constraints(lattice.info.syngony, p[1], p[2], p[3],
                                     p[4], p[5], p[6]) = p
  /\ OptimizedDone =>
       /\ Canonical(call.locals.lattice) = Canonical(lattice)
       /\ call.locals.lattice_vectors = get_lattice_vectors(lattice)
       /\ call.locals.basis_positions = get_basis_positions(lattice)
       /\ ~ call.add_noise =>
            /\ err = "none"
            /\ positions.data =
                 generate_chunk(<<lattice, call.nx, call.ny, call.nz_start,
                                  call.nz_end, FALSE, call.noise_level>>,
                                rng).array.data

(* a tetragonal lattice built from a, b, c all different, and the chunk of *)
(* two layers a worker computed for it                                     *)
C27_Witness ==
  /\ OptimizedDone
  /\ lattice.info.syngony = "tetragonal"
  /\ raw[2] # raw[3]
  /\ ~ call.add_noise
  /\ call.nz_end - call.nz_start = 2
  /\ len(positions) >= 4

============================================================================
